---- MODULE Spec2Model ----
(***************************************************************************)
(* Model of src/hope/hope.ino: the passcode lock, the menu and the         *)
(* paginated content screens of the handheld device, driven by four        *)
(* polled active-low buttons.                                              *)
(*                                                                         *)
(* The control flow is the Arduino one: setup() once, then loop() forever. *)
(* loop() calls handleButtons(), which samples the four lines and runs the *)
(* four button blocks in the fixed order BUTTON_0, BUTTON_1, BUTTON_SELECT,*)
(* BUTTON_BACK, then latches the sampled levels; loop() then tests the     *)
(* idle timeout.  pc is the position in that flow: before setup(), before  *)
(* handleButtons(), before the timeout test.  One call of handleButtons()  *)
(* is one action.  trace records the steps of the action just taken, in    *)
(* program order: for setup() and for the timeout test one step, for       *)
(* handleButtons() one step per button block, each with the globals before *)
(* the step and a log of what the step did (writes, delays, motor, LED and *)
(* display calls).                                                         *)
(***************************************************************************)
EXTENDS Integers, Sequences, FiniteSets, TLC

\* ------------------------------------------------------------------ CONFIG
PASS_LENGTH == 4
TIMEOUT_MS == 5000
DEBOUNCE == 60
VIB_SHORT == 50
VIB_MEDIUM == 100
VIB_LONG == 150
VIB_PATTERN_GAP == 40
RGB_LED_COUNT == 3
SCREEN_W == 128
SCREEN_H == 160
ACCENT_BLUE == 19839    \* 0x4D7F
ACCENT_PURPLE == 39551  \* 0x9A7F
ACCENT_PINK == 64474    \* 0xFBDA
ACCENT_ORANGE == 64608  \* 0xFC60
LOW == 0
HIGH == 1

\* enum State { BOOTING, LOCKED, UNLOCKING, MENU, CONTENT }
BOOTING == 0
LOCKED == 1
UNLOCKING == 2
MENU == 3
CONTENT == 4

\* The four buttons in the order handleButtons() treats them:
\* 0 = BUTTON_0 (Up), 1 = BUTTON_1 (Down), 2 = BUTTON_SELECT, 3 = BUTTON_BACK.
Buttons == 0..3

\* const uint8_t CORRECT_PASSCODE[PASS_LENGTH] = {0, 0, 0, 0}
CORRECT_PASSCODE == [i \in 0..(PASS_LENGTH - 1) |-> 0]

\* rgbLeds.Color(r, g, b): the packed 24-bit colour of Adafruit_NeoPixel.
Color(r, g, b) == r * 65536 + g * 256 + b

\* ------------------------------------------------------------------ bounds
\* millis() - lastPressTime is kept exactly up to ElapsedCap and saturates
\* there: the only test on it is "> TIMEOUT_MS".
ElapsedCap == 5001

\* At most MaxHeld of the four lines read low in one sampling of the inputs.
MaxHeld == 2

\* Values the elapsed time may have jumped to when loop() comes round again.
TickTargets == {TIMEOUT_MS - 1, TIMEOUT_MS, TIMEOUT_MS + 1}

\* Outcomes of the storage collaborator at boot: <<SD.begin(), SD.cardType(),
\* SD.cardSize() in MB>>.  CARD_NONE is 0, CARD_SD is 2.
SDOutcomes == {<<FALSE, 0, 0>>, <<TRUE, 0, 0>>, <<TRUE, 2, 1024>>}

VARIABLES
  pc,               \* position in setup()/loop()/handleButtons()
  currentState,     \* State currentState
  passIndex,        \* uint8_t passIndex
  enteredPasscode,  \* uint8_t enteredPasscode[PASS_LENGTH]
  selectedMenuItem, \* uint8_t selectedMenuItem
  currentPage,      \* uint8_t currentPage
  maxPages,         \* uint8_t maxPages
  lastMemoryPage,   \* uint8_t lastMemoryPage
  lastButton,       \* lastButton0, lastButton1, lastButtonSelect, lastButtonBack
  sinceLastPress,   \* millis() - lastPressTime, saturated at ElapsedCap
  sdCardDetected,   \* bool sdCardDetected
  sdCardType,       \* uint8_t sdCardType
  sdCardSize,       \* uint64_t sdCardSize
  motor,            \* level of VIBRATION_MOTOR_PIN
  led,              \* latched colours of the RGB_LED_COUNT LEDs
  accepted,         \* history: symbols stored since the attempt was last reset
  highlighted,      \* display: menu items painted highlighted since the menu
                    \* background was last painted
  blocked,          \* history: the last call of handleButtons() ran the
                    \* unlock or the error animation
  line,             \* environment: what each button line did between the
                    \* reads before and the reads of the action just taken
  trace             \* history: the steps of the action just taken

vars == <<pc, currentState, passIndex, enteredPasscode, selectedMenuItem,
          currentPage, maxPages, lastMemoryPage, lastButton, sinceLastPress,
          sdCardDetected, sdCardType, sdCardSize, motor, led, accepted,
          highlighted, blocked, line, trace>>

\* ------------------------------------------------- the machine as a record
\* The operators below thread a record m of the program's globals (plus the
\* log) through the statements of a function, in program order.
Machine ==
  [currentState |-> currentState, passIndex |-> passIndex,
   enteredPasscode |-> enteredPasscode, selectedMenuItem |-> selectedMenuItem,
   currentPage |-> currentPage, maxPages |-> maxPages,
   lastMemoryPage |-> lastMemoryPage, motor |-> motor, led |-> led,
   accepted |-> accepted, highlighted |-> highlighted, log |-> <<>>]

Emit(m, tag, a, b) == [m EXCEPT !.log = Append(@, <<tag, a, b>>)]

\* delay(ms)
Delay(m, ms) == Emit(m, "delay", ms, 0)

\* digitalWrite(VIBRATION_MOTOR_PIN, level)
MotorWrite(m, level) == [Emit(m, "motor", level, 0) EXCEPT !.motor = level]

\* tft.* drawing and the draw* helpers: the call and its arguments are logged
Draw(m, what, a, b) == Emit(m, what, a, b)

\* An assignment to one of the scalar globals: field = value.
Set(m, field, value) == [Emit(m, field, value, 0) EXCEPT ![field] = value]

\* ------------------------------------------------------ VIBRATION FUNCTIONS
\* vibrate() without the closing write: the motor is left running.
vibrate_leavesOn(m, duration) == Delay(MotorWrite(m, HIGH), duration)

vibrate(m, duration) ==
  MotorWrite(Delay(MotorWrite(m, HIGH), duration), LOW)

RECURSIVE vibratePatternFrom(_, _, _, _, _)
vibratePatternFrom(m, i, count, onTime, offTime) ==
  IF i < count
    THEN LET m1 == MotorWrite(Delay(MotorWrite(m, HIGH), onTime), LOW)
             m2 == IF i < count - 1 THEN Delay(m1, offTime) ELSE m1
         IN vibratePatternFrom(m2, i + 1, count, onTime, offTime)
    ELSE m

vibratePattern(m, count, onTime, offTime) ==
  vibratePatternFrom(m, 0, count, onTime, offTime)

successVibration(m) ==
  LET m1 == vibrate(m, VIB_SHORT)
      m2 == Delay(m1, VIB_PATTERN_GAP)
      m3 == vibrate(m2, VIB_SHORT)
      m4 == Delay(m3, VIB_PATTERN_GAP)
  IN vibrate(m4, VIB_LONG)

errorVibration(m) ==
  LET m1 == vibrate(m, VIB_LONG)
      m2 == Delay(m1, VIB_PATTERN_GAP)
  IN vibrate(m2, VIB_SHORT)

menuNavigationVibration(m) == vibrate(m, VIB_SHORT)

\* Mutant: the press pulse lasts 300 units instead of 30.
buttonPressVibration_long(m) == vibrate(m, 300)

buttonPressVibration(m) == vibrate(m, 30)

\* Mutant: the unlock pattern has two pulses instead of three.
unlockVibration_twoPulses(m) == vibratePattern(m, 2, 60, 40)

unlockVibration(m) == vibratePattern(m, 3, 60, 40)

pageTurnVibration(m) == vibrate(m, VIB_SHORT)

\* ------------------------------------------------------------ RGB LED CONTROL
\* setRGBLeds(color): every LED gets the colour, then show() latches them.
setRGBLeds(m, color) ==
  [Emit(m, "setRGBLeds", color, 0) EXCEPT
     !.led = [i \in 0..(RGB_LED_COUNT - 1) |-> color]]

RECURSIVE rgbPulseFrom(_, _, _)
rgbPulseFrom(m, i, color) ==
  IF i < 3
    THEN LET m1 == Delay(setRGBLeds(m, color), 80)
             m2 == Delay(setRGBLeds(m1, Color(0, 0, 0)), 80)
         IN rgbPulseFrom(m2, i + 1, color)
    ELSE m

rgbPulseEffect(m, color) == setRGBLeds(rgbPulseFrom(m, 0, color), color)

rgbRainbow(m) ==
  [Emit(m, "rgbRainbow", 0, 0) EXCEPT
     !.led = [i \in 0..(RGB_LED_COUNT - 1) |->
                CASE i = 0 -> Color(150, 50, 200)
                  [] i = 1 -> Color(255, 100, 180)
                  [] OTHER -> Color(0, 100, 255)]]

\* -------------------------------------------------------------- PASSCODE
\* Mutant: the comparison loop stops one element early.
checkPasscode_firstThree(m) ==
  \A i \in 0..(PASS_LENGTH - 2) : m.enteredPasscode[i] = CORRECT_PASSCODE[i]

\* checkPasscode(): element-wise comparison with CORRECT_PASSCODE.
checkPasscode(m) ==
  \A i \in 0..(PASS_LENGTH - 1) : m.enteredPasscode[i] = CORRECT_PASSCODE[i]

\* passIndex = 0; for (i...) enteredPasscode[i] = 0;   (loop() and
\* showLockedAnimation() hold the same three lines)
ResetAttempt(m) ==
  [Emit(m, "resetAttempt", 0, 0) EXCEPT
     !.passIndex = 0,
     !.enteredPasscode = [i \in 0..(PASS_LENGTH - 1) |-> 0],
     !.accepted = <<>>]

\* ------------------------------------------------------------ LOCK SCREEN
drawPasscodeCircles(m) == Draw(m, "drawPasscodeCircles", m.passIndex, 0)

\* drawLockScreen(): background, card, closed lock icon, texts, then the circles.
drawLockScreen(m) ==
  drawPasscodeCircles(Draw(Draw(m, "drawLockScreen", 0, 0), "drawLockIcon", 0, 0))

\* The blink loop shared by the two animations: two rounds of
\* clear, delay(20), delay(15), print the word, delay(300), clear, delay(200).
RECURSIVE blinkFrom(_, _, _)
blinkFrom(m, blink, word) ==
  IF blink < 2
    THEN LET m1 == Delay(Delay(m, 20), 15)
             m2 == Delay(Draw(m1, word, 0, 0), 300)
         IN blinkFrom(Delay(m2, 200), blink + 1, word)
    ELSE m

\* Mutant: the animation plays no success vibration.
showUnlockAnimation_silent(m) ==
  LET m1 == rgbPulseEffect(m, Color(0, 255, 0))
      m3 == blinkFrom(m1, 0, "printUNLOCKED")
      m4 == Draw(Delay(m3, 15), "printUNLOCKED", 0, 0)
      m5 == rgbRainbow(m4)
  IN Delay(m5, 300)

\* Mutant: the animation ends by resetting the attempt.
showUnlockAnimation_resets(m) ==
  LET m1 == rgbPulseEffect(m, Color(0, 255, 0))
      m2 == successVibration(m1)
      m3 == blinkFrom(m2, 0, "printUNLOCKED")
      m4 == Draw(Delay(m3, 15), "printUNLOCKED", 0, 0)
      m5 == rgbRainbow(m4)
  IN ResetAttempt(Delay(m5, 300))

showUnlockAnimation(m) ==
  LET m1 == rgbPulseEffect(m, Color(0, 255, 0))
      m2 == successVibration(m1)
      m3 == blinkFrom(m2, 0, "printUNLOCKED")
      m4 == Draw(Delay(m3, 15), "printUNLOCKED", 0, 0)
      m5 == rgbRainbow(m4)
  IN Delay(m5, 300)

RECURSIVE redFlashFrom(_, _)
redFlashFrom(m, i) ==
  IF i < 3
    THEN LET m1 == setRGBLeds(m, Color(255, 0, 0))
             m2 == vibrate(m1, VIB_SHORT)
             m3 == setRGBLeds(m2, Color(0, 0, 0))
         IN redFlashFrom(Delay(m3, 100), i + 1)
    ELSE m

\* Mutant: the animation forgets to reset the attempt.
showLockedAnimation_noReset(m) ==
  LET m1 == redFlashFrom(m, 0)
      m2 == errorVibration(m1)
      m3 == blinkFrom(m2, 0, "printLOCKED")
      m5 == setRGBLeds(m3, Color(0, 100, 255))
  IN drawLockScreen(m5)

showLockedAnimation(m) ==
  LET m1 == redFlashFrom(m, 0)
      m2 == errorVibration(m1)
      m3 == blinkFrom(m2, 0, "printLOCKED")
      m4 == ResetAttempt(m3)
      m5 == setRGBLeds(m4, Color(0, 100, 255))
  IN drawLockScreen(m5)

\* ------------------------------------------------------------------ MENU
\* The switch(selectedMenuItem) of the Up and Down blocks.
MenuColor(item) ==
  CASE item = 0 -> Color(150, 50, 200)
    [] item = 1 -> Color(255, 100, 180)
    [] item = 2 -> Color(0, 100, 255)
    [] OTHER -> Color(255, 150, 0)

\* Mutant: an item is always painted in the plain style.
drawMenuItem_neverHighlights(m, itemIndex, isSelected) ==
  [Draw(m, "drawMenuItem", itemIndex, 0) EXCEPT
     !.highlighted = @ \ {itemIndex}]

\* drawMenuItem(): the item's card is repainted, filled with its colour when
\* isSelected and with CARD_BG otherwise.
drawMenuItem(m, itemIndex, isSelected) ==
  [Draw(m, "drawMenuItem", itemIndex, IF isSelected THEN 1 ELSE 0) EXCEPT
     !.highlighted = IF isSelected THEN @ \cup {itemIndex}
                                   ELSE @ \ {itemIndex}]

RECURSIVE drawMenuItemsFrom(_, _)
drawMenuItemsFrom(m, i) ==
  IF i < 4
    THEN drawMenuItemsFrom(drawMenuItem(m, i, i = m.selectedMenuItem), i + 1)
    ELSE m

drawMenu(m) ==
  LET m1 == setRGBLeds(m, Color(150, 50, 200))
      m2 == unlockVibration(m1)
      m3 == [Draw(m2, "drawMenu", 0, 0) EXCEPT !.highlighted = {}]
  IN drawMenuItemsFrom(m3, 0)

\* ---------------------------------------------------------------- CONTENT
\* The switch(contentIndex) of showContent(): the catalog's page counts.
PageCount(contentIndex) ==
  CASE contentIndex = 0 -> 6
    [] contentIndex = 1 -> 3
    [] contentIndex = 2 -> 2
    [] OTHER -> 1

drawFullScreenImage(m) == Draw(m, "drawFullScreenImage", 0, 0)

drawPageIndicator(m) ==
  IF m.maxPages <= 1 THEN m
  ELSE Draw(m, "drawPageIndicator", m.currentPage, m.maxPages)

\* drawLetterContent / drawQuoteContent / drawAboutContent (currentPage)
drawPageBody(m, contentIndex) ==
  CASE contentIndex = 0 -> Draw(m, "drawLetterContent", m.currentPage, 0)
    [] contentIndex = 2 -> Draw(m, "drawQuoteContent", m.currentPage, 0)
    [] contentIndex = 3 -> Draw(m, "drawAboutContent", m.currentPage, 0)
    [] OTHER -> m

\* Mutant: showContent() does not put the cursor back on page 0.
showContent_keepsPage(m, contentIndex) ==
  LET m1 == IF contentIndex \in 0..3
              THEN Set(m, "maxPages", PageCount(contentIndex)) ELSE m
      m3 == Set(m1, "lastMemoryPage", 0)
      m4 == vibrate(m3, VIB_MEDIUM)
  IN IF contentIndex = 1
       THEN LET m5 == drawFullScreenImage(m4)
            IN IF m5.maxPages > 1 THEN drawPageIndicator(m5) ELSE m5
       ELSE LET m5 == Draw(m4, "drawTitleBar", contentIndex, 0)
                m6 == drawPageBody(m5, contentIndex)
            IN IF m6.maxPages > 1 THEN drawPageIndicator(m6) ELSE m6

showContent(m, contentIndex) ==
  LET m1 == IF contentIndex \in 0..3
              THEN Set(m, "maxPages", PageCount(contentIndex)) ELSE m
      m2 == Set(m1, "currentPage", 0)
      m3 == Set(m2, "lastMemoryPage", 0)
      m4 == vibrate(m3, VIB_MEDIUM)
  IN IF contentIndex = 1
       THEN LET m5 == drawFullScreenImage(m4)
            IN IF m5.maxPages > 1 THEN drawPageIndicator(m5) ELSE m5
       ELSE LET m5 == Draw(m4, "drawTitleBar", contentIndex, 0)
                m6 == drawPageBody(m5, contentIndex)
            IN IF m6.maxPages > 1 THEN drawPageIndicator(m6) ELSE m6

\* slideAnimation(direction): 16 strips of growing width, delay(8) after each,
\* then the full image.  direction: 1 = true, 0 = false.
\* srcX with the column one too far to the right in the forward direction.
srcX_offByOne(direction, offset, x) ==
  IF direction = 1 THEN SCREEN_W - offset + x + 1 ELSE x

\* int srcX: the source column of strip column x
srcX(direction, offset, x) ==
  IF direction = 1 THEN SCREEN_W - offset + x ELSE x

\* int pixelIndex = y * SCREEN_W + srcX
pixelIndex(y, sx) == y * SCREEN_W + sx

\* The indices pic1[] is read at while one strip of width offset is pushed.
stripReads(direction, offset) ==
  {pixelIndex(y, srcX(direction, offset, x)) :
     y \in 0..(SCREEN_H - 1), x \in 0..(offset - 1)}

RECURSIVE slideFrom(_, _, _)
slideFrom(m, i, direction) ==
  LET steps == 16
      stepSize == SCREEN_W \div steps
  IN IF i <= steps
       THEN slideFrom(Delay(Draw(m, "slideStrip", i * stepSize, direction), 8),
                      i + 1, direction)
       ELSE m

slideAnimation(m, direction) == drawFullScreenImage(slideFrom(m, 1, direction))

\* Mutant: the Memories branch does not record the page it has just shown.
updatePageContent_staleLastPage(m, contentIndex) ==
  LET m1 == pageTurnVibration(m)
  IN IF contentIndex = 1
       THEN LET slideDirection == IF m1.currentPage > m1.lastMemoryPage THEN 1 ELSE 0
                m3 == slideAnimation(m1, slideDirection)
            IN IF m3.maxPages > 1 THEN drawPageIndicator(m3) ELSE m3
       ELSE LET m2 == IF contentIndex \in {0, 2}
                        THEN Draw(m1, "clearPageArea", 0, 0) ELSE m1
                m3 == drawPageBody(m2, contentIndex)
            IN IF m3.maxPages > 1 THEN drawPageIndicator(m3) ELSE m3

updatePageContent(m, contentIndex) ==
  LET m1 == pageTurnVibration(m)
  IN IF contentIndex = 1
       THEN LET slideDirection == IF m1.currentPage > m1.lastMemoryPage THEN 1 ELSE 0
                m2 == Set(m1, "lastMemoryPage", m1.currentPage)
                m3 == slideAnimation(m2, slideDirection)
            IN IF m3.maxPages > 1 THEN drawPageIndicator(m3) ELSE m3
       ELSE LET m2 == IF contentIndex \in {0, 2}
                        THEN Draw(m1, "clearPageArea", 0, 0) ELSE m1
                m3 == drawPageBody(m2, contentIndex)
            IN IF m3.maxPages > 1 THEN drawPageIndicator(m3) ELSE m3

\* ---------------------------------------------------------- BUTTON HANDLER
\* Mutant: the attempt counts as full one symbol early.
AttemptFull_oneEarly(m) == m.passIndex >= PASS_LENGTH - 1

\* if (passIndex >= PASS_LENGTH)
AttemptFull(m) == m.passIndex >= PASS_LENGTH

\* Mutant: the cursor is incremented before the store instead of after it.
EnterSymbol_preIncrement(m, symbol, ledColor, ringColor) ==
  LET m0 == Set(m, "passIndex", (m.passIndex + 1) % 256)
      m2 == [Emit(m0, "store", m0.passIndex, symbol) EXCEPT
               !.enteredPasscode =
                   [i \in 0..(PASS_LENGTH - 1) |->
                      IF i = m0.passIndex THEN symbol ELSE @[i]],
               !.accepted = Append(@, symbol)]
      m3 == setRGBLeds(m2, ledColor)
      m4 == Delay(Draw(m3, "drawCircle", 7, ringColor), 8)
      m5 == Delay(Draw(m4, "drawCircle", 9, ringColor), 8)
      m6 == drawPasscodeCircles(m5)
  IN IF AttemptFull(m6)
       THEN LET m7 == Delay(m6, 150)
                ok == checkPasscode(m7)
                m8 == Emit(m7, "checkPasscode", IF ok THEN 1 ELSE 0, 0)
            IN IF ok
                 THEN LET m9 == Set(m8, "currentState", UNLOCKING)
                          m10 == drawMenu(showUnlockAnimation(m9))
                      IN Set(m10, "currentState", MENU)
                 ELSE showLockedAnimation(m8)
       ELSE m6

\* Mutant: after a match the state is left at UNLOCKING.
EnterSymbol_staysUnlocking(m, symbol, ledColor, ringColor) ==
  LET m1 == [Emit(m, "store", m.passIndex, symbol) EXCEPT
               !.enteredPasscode[m.passIndex] = symbol,
               !.accepted = Append(@, symbol)]
      m2 == Set(m1, "passIndex", (m1.passIndex + 1) % 256)
      m3 == setRGBLeds(m2, ledColor)
      m4 == Delay(Draw(m3, "drawCircle", 7, ringColor), 8)
      m5 == Delay(Draw(m4, "drawCircle", 9, ringColor), 8)
      m6 == drawPasscodeCircles(m5)
  IN IF AttemptFull(m6)
       THEN LET m7 == Delay(m6, 150)
                ok == checkPasscode(m7)
                m8 == Emit(m7, "checkPasscode", IF ok THEN 1 ELSE 0, 0)
            IN IF ok
                 THEN LET m9 == Set(m8, "currentState", UNLOCKING)
                      IN drawMenu(showUnlockAnimation(m9))
                 ELSE showLockedAnimation(m8)
       ELSE m6

\* The passcode branch, four copies of which sit in handleButtons(); the
\* copies differ in the symbol stored, the LED colour and the ring colour.
EnterSymbol(m, symbol, ledColor, ringColor) ==
  LET m1 == [Emit(m, "store", m.passIndex, symbol) EXCEPT
               !.enteredPasscode[m.passIndex] = symbol,
               !.accepted = Append(@, symbol)]
      m2 == Set(m1, "passIndex", (m1.passIndex + 1) % 256)
      m3 == setRGBLeds(m2, ledColor)
      m4 == Delay(Draw(m3, "drawCircle", 7, ringColor), 8)
      m5 == Delay(Draw(m4, "drawCircle", 9, ringColor), 8)
      m6 == drawPasscodeCircles(m5)
  IN IF AttemptFull(m6)
       THEN LET m7 == Delay(m6, 150)
                ok == checkPasscode(m7)
                m8 == Emit(m7, "checkPasscode", IF ok THEN 1 ELSE 0, 0)
            IN IF ok
                 THEN LET m9 == Set(m8, "currentState", UNLOCKING)
                          m10 == drawMenu(showUnlockAnimation(m9))
                      IN Set(m10, "currentState", MENU)
                 ELSE showLockedAnimation(m8)
       ELSE m6

\* Mutant: Up at the first item stays there instead of wrapping.
MenuPrevious_clamped(item) == IF item = 0 THEN 0 ELSE item - 1

\* selectedMenuItem = (selectedMenuItem == 0) ? 3 : selectedMenuItem - 1
MenuPrevious(item) == IF item = 0 THEN 3 ELSE item - 1

\* selectedMenuItem = (selectedMenuItem + 1) % 4
MenuNext(item) == (item + 1) % 4

\* Mutant: the LEDs get the colour of the item the selection has left.
MoveSelection_colourOfOldItem(m, newItem) ==
  LET oldSelection == m.selectedMenuItem
      m1 == Set(m, "selectedMenuItem", newItem)
      m2 == menuNavigationVibration(m1)
      m3 == IF oldSelection \in 0..3
              THEN setRGBLeds(m2, MenuColor(oldSelection)) ELSE m2
      m4 == drawMenuItem(m3, oldSelection, FALSE)
  IN drawMenuItem(m4, m4.selectedMenuItem, TRUE)

\* The MENU branch of the Up and Down blocks, newItem being the new selection.
MoveSelection(m, newItem) ==
  LET oldSelection == m.selectedMenuItem
      m1 == Set(m, "selectedMenuItem", newItem)
      m2 == menuNavigationVibration(m1)
      m3 == IF m2.selectedMenuItem \in 0..3
              THEN setRGBLeds(m2, MenuColor(m2.selectedMenuItem)) ELSE m2
      m4 == drawMenuItem(m3, oldSelection, FALSE)
  IN drawMenuItem(m4, m4.selectedMenuItem, TRUE)

\* Mutant: the page is redrawn even when the cursor cannot move.
PreviousPage_alwaysRedraws(m) ==
  updatePageContent(IF m.currentPage > 0
                      THEN Set(m, "currentPage", m.currentPage - 1) ELSE m,
                    m.selectedMenuItem)

\* Mutant: the previous-page branch has no test for the first page.
PreviousPage_noLowerBound(m) ==
  updatePageContent(Set(m, "currentPage", (m.currentPage - 1) % 256),
                    m.selectedMenuItem)

\* if (currentPage > 0) { currentPage--; updatePageContent(selectedMenuItem); }
PreviousPage(m) ==
  IF m.currentPage > 0
    THEN updatePageContent(Set(m, "currentPage", m.currentPage - 1),
                           m.selectedMenuItem)
    ELSE m

\* Mutant: the bound test lets the cursor reach maxPages.
NextPage_offByOne(m) ==
  IF m.currentPage <= m.maxPages - 1
    THEN updatePageContent(Set(m, "currentPage", (m.currentPage + 1) % 256),
                           m.selectedMenuItem)
    ELSE m

\* Mutant: the page is redrawn even when the cursor is on the last page.
NextPage_alwaysRedraws(m) ==
  updatePageContent(IF m.currentPage < m.maxPages - 1
                      THEN Set(m, "currentPage", (m.currentPage + 1) % 256)
                      ELSE m,
                    m.selectedMenuItem)

\* if (currentPage < maxPages - 1) { currentPage++; updatePageContent(...); }
NextPage(m) ==
  IF m.currentPage < m.maxPages - 1
    THEN updatePageContent(Set(m, "currentPage", (m.currentPage + 1) % 256),
                           m.selectedMenuItem)
    ELSE m

\* showContent(selectedMenuItem); currentState = CONTENT; setRGBLeds(dim)
EnterContent(m) ==
  LET m1 == showContent(m, m.selectedMenuItem)
      m2 == Set(m1, "currentState", CONTENT)
  IN setRGBLeds(m2, Color(50, 50, 50))

\* Mutant: going back to the menu selects the first item again.
BackToMenu_resetsSelection(m) ==
  Set(drawMenu(Set(m, "selectedMenuItem", 0)), "currentState", MENU)

\* Mutant: Back from a content screen locks the device again.
BackToMenu_locks(m) == Set(drawLockScreen(m), "currentState", LOCKED)

\* drawMenu(); currentState = MENU
BackToMenu(m) == Set(drawMenu(m), "currentState", MENU)

\* Mutant: a confirmed press is stamped but not acknowledged by a pulse.
Confirmed_noPulse(m, button) ==
  Emit(Emit(m, "press", button, 0), "lastPressTime", 0, 0)

\* lastPressTime = millis(); buttonPressVibration();  -- every confirmed press
Confirmed(m, button) ==
  buttonPressVibration(Emit(Emit(m, "press", button, 0), "lastPressTime", 0, 0))

\* The body of   if (currentButton0 == LOW) { ... }   after the re-sample.
HandleButton0(m) ==
  LET m1 == Confirmed(m, 0)
  IN CASE m1.currentState = LOCKED /\ m1.passIndex < PASS_LENGTH ->
            EnterSymbol(m1, 0, Color(0, 100, 255), ACCENT_BLUE)
       [] m1.currentState = MENU ->
            MoveSelection(m1, MenuPrevious(m1.selectedMenuItem))
       [] m1.currentState = CONTENT -> PreviousPage(m1)
       [] OTHER -> m1

HandleButton1(m) ==
  LET m1 == Confirmed(m, 1)
  IN CASE m1.currentState = LOCKED /\ m1.passIndex < PASS_LENGTH ->
            EnterSymbol(m1, 1, Color(150, 50, 200), ACCENT_PURPLE)
       [] m1.currentState = MENU -> MoveSelection(m1, MenuNext(m1.selectedMenuItem))
       [] m1.currentState = CONTENT -> NextPage(m1)
       [] OTHER -> m1

\* Mutant: Select opens the selected screen from CONTENT as well as from MENU.
HandleButtonSelect_alsoInContent(m) ==
  LET m1 == Confirmed(m, 2)
  IN CASE m1.currentState = LOCKED /\ m1.passIndex < PASS_LENGTH ->
            EnterSymbol(m1, 2, Color(255, 100, 180), ACCENT_PINK)
       [] m1.currentState \in {MENU, CONTENT} -> EnterContent(m1)
       [] OTHER -> m1

HandleButtonSelect(m) ==
  LET m1 == Confirmed(m, 2)
  IN CASE m1.currentState = LOCKED /\ m1.passIndex < PASS_LENGTH ->
            EnterSymbol(m1, 2, Color(255, 100, 180), ACCENT_PINK)
       [] m1.currentState = MENU -> EnterContent(m1)
       [] OTHER -> m1

\* Mutant: the Back block stores the symbol of the Select block.
HandleButtonBack_storesTwo(m) ==
  LET m1 == Confirmed(m, 3)
  IN CASE m1.currentState = LOCKED /\ m1.passIndex < PASS_LENGTH ->
            EnterSymbol(m1, 2, Color(255, 150, 0), ACCENT_ORANGE)
       [] m1.currentState = CONTENT -> BackToMenu(m1)
       [] OTHER -> m1

HandleButtonBack(m) ==
  LET m1 == Confirmed(m, 3)
  IN CASE m1.currentState = LOCKED /\ m1.passIndex < PASS_LENGTH ->
            EnterSymbol(m1, 3, Color(255, 150, 0), ACCENT_ORANGE)
       [] m1.currentState = CONTENT -> BackToMenu(m1)
       [] OTHER -> m1

HandleButton(b, m) ==
  CASE b = 0 -> HandleButton0(m)
    [] b = 1 -> HandleButton1(m)
    [] b = 2 -> HandleButtonSelect(m)
    [] OTHER -> HandleButtonBack(m)

\* -------------------------------------------------------------------- time
RECURSIVE DelaySum(_)
DelaySum(lg) ==
  IF lg = <<>> THEN 0
  ELSE (IF Head(lg)[1] = "delay" THEN Head(lg)[2] ELSE 0) + DelaySum(Tail(lg))

\* Index of the last   lastPressTime = millis()   in lg, 0 when there is none.
LastStamp(lg) ==
  LET S == {i \in 1..Len(lg) : lg[i][1] = "lastPressTime"}
  IN IF S = {} THEN 0 ELSE CHOOSE i \in S : \A j \in S : j <= i

Saturate(t) == IF t > ElapsedCap THEN ElapsedCap ELSE t

\* delay() guarantees a lower bound only.  Time that passes with no press
\* being stamped brings the elapsed time to the next sampled value.
NextSample(t) ==
  LET S == {x \in TickTargets : x >= t}
  IN IF S = {} THEN ElapsedCap ELSE Saturate(CHOOSE x \in S : \A y \in S : x <= y)

\* millis() - lastPressTime after the statements logged in lg have run.
Elapsed(since, lg) ==
  LET k == LastStamp(lg)
      d == DelaySum(SubSeq(lg, k + 1, Len(lg)))
  IN IF k > 0 THEN Saturate(d)
     ELSE IF d = 0 THEN since
     ELSE NextSample(since + d)

\* The globals after the statements that produced m.
Commit(m) ==
  /\ currentState' = m.currentState
  /\ passIndex' = m.passIndex
  /\ enteredPasscode' = m.enteredPasscode
  /\ selectedMenuItem' = m.selectedMenuItem
  /\ currentPage' = m.currentPage
  /\ maxPages' = m.maxPages
  /\ lastMemoryPage' = m.lastMemoryPage
  /\ motor' = m.motor
  /\ led' = m.led
  /\ accepted' = m.accepted
  /\ highlighted' = m.highlighted

\* m at the start of the next step: the same globals, nothing logged yet.
Fresh(m) == [m EXCEPT !.log = <<>>]

\* The record of one step: the globals before it, what it did, and for a
\* button block the level of its line as latched by the previous call (last),
\* as read at the top of this call (sampled) and as re-sampled (level).
Step(name, before, after, last, sampled, level) ==
  [step |-> name, before |-> Fresh(before), log |-> after.log,
   last |-> last, sampled |-> sampled, level |-> level]

AllHigh == [b \in Buttons |-> HIGH]

\* What a button line does between two consecutive reads of it: nothing the
\* reads do not show ("idle"), LOW and back to HIGH ("tapped"), or LOW and
\* still LOW at the next read ("held").
LineActivity == {"idle", "tapped", "held"}

AllIdle == [b \in Buttons |-> "idle"]

\* ------------------------------------------------------------------- Init
\* The globals as their definitions initialise them, before setup().
Init ==
  /\ pc = "setup"
  /\ currentState = BOOTING
  /\ passIndex = 0
  /\ enteredPasscode = [i \in 0..(PASS_LENGTH - 1) |-> 0]
  /\ selectedMenuItem = 0
  /\ currentPage = 0
  /\ maxPages = 0
  /\ lastMemoryPage = 0
  /\ lastButton = AllHigh
  /\ sinceLastPress = 0
  /\ sdCardDetected = FALSE
  /\ sdCardType = 0
  /\ sdCardSize = 0
  /\ motor = LOW
  /\ led = [i \in 0..(RGB_LED_COUNT - 1) |-> 0]
  /\ accepted = <<>>
  /\ highlighted = {}
  /\ blocked = FALSE
  /\ line = AllIdle
  /\ trace = <<>>

\* ------------------------------------------------------------------ setup
\* Mutant: with no card attached the flag set after SD.begin() is left true.
initSDCard_keepsDetected(sd) ==
  IF ~sd[1]
    THEN /\ sdCardDetected' = FALSE
         /\ UNCHANGED <<sdCardType, sdCardSize>>
    ELSE IF sd[2] = 0
      THEN /\ sdCardDetected' = TRUE
           /\ sdCardType' = sd[2]
           /\ UNCHANGED sdCardSize
      ELSE /\ sdCardDetected' = TRUE
           /\ sdCardType' = sd[2]
           /\ sdCardSize' = sd[3]

\* initSDCard() with the collaborator answering sd = <<begin, type, sizeMB>>.
initSDCard(sd) ==
  IF ~sd[1]
    THEN /\ sdCardDetected' = FALSE
         /\ UNCHANGED <<sdCardType, sdCardSize>>
    ELSE IF sd[2] = 0
      THEN /\ sdCardDetected' = FALSE
           /\ sdCardType' = sd[2]
           /\ UNCHANGED sdCardSize
      ELSE /\ sdCardDetected' = TRUE
           /\ sdCardType' = sd[2]
           /\ sdCardSize' = sd[3]

\* setup(); the log records what the collaborator answered to initSDCard().
Setup ==
  /\ pc = "setup"
  /\ \E sd \in SDOutcomes :
       /\ initSDCard(sd)
       /\ LET m1 == MotorWrite(Delay(Machine, 100), LOW)
              m2 == setRGBLeds(m1, Color(100, 0, 150))
              m3 == vibratePattern(m2, 2, 80, 40)
              m4 == Delay(Draw(m3, "showBootLogo", 0, 0), 600)
              m5 == setRGBLeds(Emit(m4, "initSDCard",
                                    IF sd[1] THEN 1 ELSE 0, sd[2]),
                               Color(0, 100, 255))
              m6 == Set(drawLockScreen(m5), "currentState", LOCKED)
          IN /\ Commit(m6)
             /\ sinceLastPress' = Elapsed(sinceLastPress, m6.log)
             /\ trace' = <<Step("setup", Machine, m6, HIGH, HIGH, HIGH)>>
  /\ pc' = "handleButtons"
  /\ UNCHANGED <<lastButton, blocked, line>>

\* ------------------------------------------------------------ handleButtons
BlockName(b) ==
  CASE b = 0 -> "button0"
    [] b = 1 -> "button1"
    [] b = 2 -> "buttonSelect"
    [] OTHER -> "buttonBack"

\* if (currentButtonX == LOW && lastButtonX == HIGH)
Edge(b, levels) == levels[b] = LOW /\ lastButton[b] = HIGH

\* currentButtonX when block b is over: re-sampled after delay(DEBOUNCE) if
\* the block saw a falling edge, else as read at the top of handleButtons().
Level(b, levels, resamples) ==
  IF Edge(b, levels) THEN resamples[b] ELSE levels[b]

\* Mutant: the block tests the level of the line, not the falling edge.
ButtonBlock_levelTriggered(b, m, levels, resamples) ==
  LET m1 == IF levels[b] = LOW THEN Delay(Fresh(m), DEBOUNCE) ELSE Fresh(m)
  IN IF levels[b] = LOW /\ resamples[b] = LOW THEN HandleButton(b, m1) ELSE m1

\* One   if (currentButtonX == LOW && lastButtonX == HIGH) { ... }   block,
\* run on the globals m; levels are the four digitalRead() at the top of
\* handleButtons(), resamples what the re-sampling reads.
\* Mutant: the level read after the settle delay is not looked at.
ButtonBlock_noResample(b, m, levels, resamples) ==
  LET m1 == IF Edge(b, levels) THEN Delay(Fresh(m), DEBOUNCE) ELSE Fresh(m)
  IN IF Edge(b, levels) THEN HandleButton(b, m1) ELSE m1

\* Mutant: a press during the animation of the call before is remembered and
\* served by the block when its line reads HIGH again.
ButtonBlock_servesMissed(b, m, levels, resamples) ==
  LET m1 == IF Edge(b, levels) THEN Delay(Fresh(m), DEBOUNCE) ELSE Fresh(m)
  IN IF Edge(b, levels) /\ resamples[b] = LOW THEN HandleButton(b, m1)
     ELSE IF blocked /\ lastButton[b] = HIGH /\ levels[b] = HIGH
            THEN HandleButton(b, m1)
     ELSE m1

ButtonBlock(b, m, levels, resamples) ==
  LET m1 == IF Edge(b, levels) THEN Delay(Fresh(m), DEBOUNCE) ELSE Fresh(m)
  IN IF Edge(b, levels) /\ resamples[b] = LOW THEN HandleButton(b, m1) ELSE m1

\* The four reads at the top of handleButtons(): at most MaxHeld lines LOW.
Samples ==
  {levels \in [Buttons -> {LOW, HIGH}] :
     Cardinality({b \in Buttons : levels[b] = LOW}) <= MaxHeld}

\* The reads after delay(DEBOUNCE): a block that sees a falling edge reads
\* its line again, LOW or HIGH; no other line is read a second time.
Resamples(levels) ==
  {[b \in Buttons |-> IF b \in bounced THEN HIGH ELSE levels[b]] :
     bounced \in SUBSET {b \in Buttons : Edge(b, levels)}}

\* lg holds showUnlockAnimation() or showLockedAnimation(): both follow the
\* call of checkPasscode().
Animated(lg) == \E i \in 1..Len(lg) : lg[i][1] = "checkPasscode"

\* What the lines did between the reads of the call before and the reads of
\* this one, when that call was blocked by an animation: nothing the reads do
\* not show, or one line that was read HIGH went LOW and is HIGH again at the
\* top of this call ("tapped"), or went LOW and is read LOW at the top and
\* after the settle delay ("held").  No statement of the animations looks at
\* a line.
Activities(levels, resamples) ==
  IF blocked
    THEN {AllIdle} \cup
         {[AllIdle EXCEPT ![b] = "tapped"] :
            b \in {c \in Buttons : lastButton[c] = HIGH /\ levels[c] = HIGH}}
         \cup
         {[AllIdle EXCEPT ![b] = "held"] :
            b \in {c \in Buttons : /\ lastButton[c] = HIGH
                                   /\ levels[c] = LOW
                                   /\ resamples[c] = LOW}}
    ELSE {AllIdle}

\* Mutant: the four blocks run in the order Back, Select, Down, Up.
HandleButtons_backFirst ==
  /\ pc = "handleButtons"
  /\ \E levels \in Samples :
     \E resamples \in Resamples(levels) :
       /\ \E r3 \in {ButtonBlock(3, Machine, levels, resamples)} :
          \E r2 \in {ButtonBlock(2, r3, levels, resamples)} :
          \E r1 \in {ButtonBlock(1, r2, levels, resamples)} :
          \E r0 \in {ButtonBlock(0, r1, levels, resamples)} :
            LET before == <<Machine, r3, r2, r1>>
                after == <<r3, r2, r1, r0>>
            IN /\ Commit(r0)
               /\ sinceLastPress' =
                    Elapsed(Elapsed(Elapsed(Elapsed(sinceLastPress, r3.log),
                                            r2.log), r1.log), r0.log)
               /\ trace' = [k \in 1..4 |->
                              Step(BlockName(4 - k), before[k], after[k],
                                   lastButton[4 - k], levels[4 - k],
                                   Level(4 - k, levels, resamples))]
               /\ lastButton' = [b \in Buttons |-> Level(b, levels, resamples)]
               /\ line' \in Activities(levels, resamples)
               /\ blocked' = Animated(r0.log \o r1.log \o r2.log \o r3.log)
  /\ pc' = "timeout"
  /\ UNCHANGED <<sdCardDetected, sdCardType, sdCardSize>>

\* handleButtons(): the four reads, the four blocks in their fixed order,
\* then   lastButtonX = currentButtonX   for the four buttons.
HandleButtons ==
  /\ pc = "handleButtons"
  /\ \E levels \in Samples :
     \E resamples \in Resamples(levels) :
       /\ \E r0 \in {ButtonBlock(0, Machine, levels, resamples)} :
          \E r1 \in {ButtonBlock(1, r0, levels, resamples)} :
          \E r2 \in {ButtonBlock(2, r1, levels, resamples)} :
          \E r3 \in {ButtonBlock(3, r2, levels, resamples)} :
            LET before == <<Machine, r0, r1, r2>>
                after == <<r0, r1, r2, r3>>
            IN /\ Commit(r3)
               /\ sinceLastPress' =
                    Elapsed(Elapsed(Elapsed(Elapsed(sinceLastPress, r0.log),
                                            r1.log), r2.log), r3.log)
               /\ trace' = [k \in 1..4 |->
                              Step(BlockName(k - 1), before[k], after[k],
                                   lastButton[k - 1], levels[k - 1],
                                   Level(k - 1, levels, resamples))]
               /\ lastButton' = [b \in Buttons |-> Level(b, levels, resamples)]
               /\ line' \in Activities(levels, resamples)
               /\ blocked' = Animated(r0.log \o r1.log \o r2.log \o r3.log)
  /\ pc' = "timeout"
  /\ UNCHANGED <<sdCardDetected, sdCardType, sdCardSize>>

\* ------------------------------------------------------------------- loop
\* Mutant: the timeout fires already when exactly TIMEOUT_MS have elapsed.
TimedOut_inclusive(m, since) ==
  m.currentState = LOCKED /\ since >= TIMEOUT_MS /\ m.passIndex > 0

\* Mutant: the timeout test does not look at currentState.
TimedOut_anyState(m, since) == since > TIMEOUT_MS /\ m.passIndex > 0

\* currentState == LOCKED && millis() - lastPressTime > TIMEOUT_MS
\*   && passIndex > 0
TimedOut(m, since) ==
  m.currentState = LOCKED /\ since > TIMEOUT_MS /\ m.passIndex > 0

\* The idle-timeout test that follows handleButtons() in loop().
LoopTimeout ==
  /\ pc = "timeout"
  /\ LET m == IF TimedOut(Machine, sinceLastPress)
                THEN drawPasscodeCircles(ResetAttempt(Machine))
                ELSE Machine
     IN /\ Commit(m)
        /\ trace' = <<Step("timeout", Machine, m, HIGH, HIGH, HIGH)>>
  /\ pc' = "handleButtons"
  /\ line' = AllIdle
  /\ UNCHANGED <<lastButton, sinceLastPress, sdCardDetected, sdCardType,
                 sdCardSize, blocked>>

\* Time passing between two iterations of loop().
Tick ==
  /\ pc = "handleButtons"
  /\ \E t \in TickTargets :
       /\ t > sinceLastPress
       /\ sinceLastPress' = Saturate(t)
  /\ UNCHANGED <<pc, currentState, passIndex, enteredPasscode,
                 selectedMenuItem, currentPage, maxPages, lastMemoryPage,
                 lastButton, sdCardDetected, sdCardType, sdCardSize, motor,
                 led, accepted, highlighted, blocked, line, trace>>

Next ==
  \/ Setup
  \/ HandleButtons
  \/ LoopTimeout
  \/ Tick

Spec == Init /\ [][Next]_vars

\* =========================================================================
\* Properties
\* =========================================================================
\* trace holds the steps of the last action in program order: the four button
\* blocks of one handleButtons() call, or the timeout test, or setup().
Steps == 1..Len(trace)

\* The globals when step k began and when it ended, and what it did.
Pre(k) == trace[k].before

Post(k) == IF k < Len(trace) THEN trace[k + 1].before ELSE Machine

Log(k) == trace[k].log

Events(lg) == {lg[i] : i \in 1..Len(lg)}

\* Step k is the block of button b and the press was confirmed in it.
Pressed(k, b) ==
  /\ Log(k) # <<>>
  /\ trace[k].step = BlockName(b)
  /\ <<"press", b, 0>> \in Events(Log(k))

\* The motor writes and the delays of a log, in order.
HapticTrace(lg) == SelectSeq(lg, LAMBDA e : e[1] \in {"motor", "delay"})

\* Number of places where pattern occurs in lg as a run of consecutive events.
Occurrences(pattern, lg) ==
  Cardinality({i \in 1..(Len(lg) - Len(pattern) + 1) :
                 SubSeq(lg, i, i + Len(pattern) - 1) = pattern})

On(ms) == << <<"motor", 1, 0>>, <<"delay", ms, 0>>, <<"motor", 0, 0>> >>

Off(ms) == << <<"delay", ms, 0>> >>

\* success: 50 on, 40 off, 50 on, 40 off, 150 on
SuccessProfile == On(50) \o Off(40) \o On(50) \o Off(40) \o On(150)

\* error: 150 on, 40 off, 50 on
ErrorProfile == On(150) \o Off(40) \o On(50)

\* The symbol a step stored in the passcode buffer, as a set (empty or one).
StoredSymbols(lg) == {e[3] : e \in {x \in Events(lg) : x[1] = "store"}}

Cleared == [i \in 0..(PASS_LENGTH - 1) |-> 0]

\* The catalog's page counts as the claims state them: 6, 3, 2, 1.
CatalogPages == <<6, 3, 2, 1>>

DimLeds == [i \in 0..(RGB_LED_COUNT - 1) |-> Color(50, 50, 50)]

\* Tags of the events that draw on the display.
DrawTags ==
  {"drawPasscodeCircles", "drawLockScreen", "drawLockIcon", "drawCircle",
   "printUNLOCKED", "printLOCKED", "drawMenu", "drawMenuItem",
   "drawFullScreenImage", "drawPageIndicator", "drawLetterContent",
   "drawQuoteContent", "drawAboutContent", "drawTitleBar", "slideStrip",
   "clearPageArea", "showBootLogo"}

\* C1: the fourth symbol accepted since the attempt was last reset unlocks
\* the device (the button's block ends in MENU) exactly when the four symbols
\* are 0,0,0,0; after any other four symbols the block ends in LOCKED.
C1_UnlockIffReference ==
  \A k \in Steps : \A s \in StoredSymbols(Log(k)) :
    (Pre(k).currentState = LOCKED /\ Len(Pre(k).accepted) = 3) =>
      /\ Post(k).currentState = MENU <=>
           Append(Pre(k).accepted, s) = <<0, 0, 0, 0>>
      /\ Post(k).currentState # MENU => Post(k).currentState = LOCKED

\* A block has evaluated the passcode check with a matching buffer and ended
\* in MENU.
C1_Witness ==
  \E k \in Steps :
    /\ <<"checkPasscode", 1, 0>> \in Events(Log(k))
    /\ Pre(k).currentState = LOCKED
    /\ Post(k).currentState = MENU
    /\ Post(k).accepted = <<0, 0, 0, 0>>

\* C2: a full attempt that differs from 0,0,0,0 ends its block in LOCKED with
\* passIndex = 0 and the buffer cleared, and the error profile (150 on,
\* 40 off, 50 on) occurs exactly once in the block's haptic trace.
C2_FailedAttemptResets ==
  \A k \in Steps : \A s \in StoredSymbols(Log(k)) :
    (Pre(k).currentState = LOCKED /\ Len(Pre(k).accepted) = 3
       /\ Append(Pre(k).accepted, s) # <<0, 0, 0, 0>>) =>
      /\ Post(k).currentState = LOCKED
      /\ Post(k).passIndex = 0
      /\ Post(k).enteredPasscode = Cleared
      /\ Occurrences(ErrorProfile, HapticTrace(Log(k))) = 1

\* A block has rejected a full attempt whose fourth symbol was 0.
C2_Witness ==
  \E k \in Steps :
    /\ <<"checkPasscode", 0, 0>> \in Events(Log(k))
    /\ <<"store", 3, 0>> \in Events(Log(k))
    /\ Post(k).currentState = LOCKED
    /\ Post(k).passIndex = 0

\* C3: the fourth 0 of an attempt 0,0,0,0 ends its block in MENU; the success
\* profile (50 on, 40 off, 50 on, 40 off, 150 on) occurs once in the haptic
\* trace of a step that goes from LOCKED to MENU and in no other step.
C3_SuccessOncePerUnlock ==
  \A k \in Steps :
    /\ \A s \in StoredSymbols(Log(k)) :
         (Pre(k).currentState = LOCKED /\ Pre(k).accepted = <<0, 0, 0>>
            /\ s = 0) =>
           Post(k).currentState = MENU
    /\ Occurrences(SuccessProfile, HapticTrace(Log(k))) =
         (IF Pre(k).currentState = LOCKED /\ Post(k).currentState = MENU
            THEN 1 ELSE 0)

\* The unlocking block has run.
C3_Witness ==
  \E k \in Steps :
    /\ Pre(k).currentState = LOCKED
    /\ Post(k).currentState = MENU
    /\ <<"store", 3, 0>> \in Events(Log(k))
    /\ Occurrences(SuccessProfile, HapticTrace(Log(k))) = 1

\* C4: the passcode check is not evaluated, and the state stays LOCKED, when
\* the first, second or third symbol since a reset is accepted; it is
\* evaluated in the block that accepts the fourth; LOCKED is left only by
\* a block that accepts a fourth symbol.
C4_FullOnlyOnFourth ==
  \A k \in Steps :
    /\ \A s \in StoredSymbols(Log(k)) :
         LET checked == \E e \in Events(Log(k)) : e[1] = "checkPasscode"
         IN /\ Len(Pre(k).accepted) < 3 =>
                 ~checked /\ Post(k).currentState = LOCKED
            /\ Len(Pre(k).accepted) = 3 => checked
    /\ (Pre(k).currentState = LOCKED /\ Post(k).currentState # LOCKED) =>
         (Len(Pre(k).accepted) = 3 /\ StoredSymbols(Log(k)) # {})

\* The third 0 of an attempt has been accepted: the buffer equals the
\* reference, and no check was made.
C4_Witness ==
  \E k \in Steps :
    /\ Post(k).currentState = LOCKED
    /\ Post(k).passIndex = 3
    /\ Post(k).enteredPasscode = Cleared
    /\ <<"store", 2, 0>> \in Events(Log(k))
    /\ \A e \in Events(Log(k)) : e[1] # "checkPasscode"

\* C5: in LOCKED with passIndex < 4 a confirmed press of button b (0 Up,
\* 1 Down, 2 Select, 3 Back) writes symbol b at index passIndex and then
\* sets passIndex to passIndex + 1; below the fourth symbol that is also
\* what the block leaves behind.
C5_ButtonIsSymbol ==
  \A k \in Steps : \A b \in Buttons :
    (Pre(k).currentState = LOCKED /\ Pre(k).passIndex < 4 /\ Pressed(k, b)) =>
      /\ \E i \in 1..Len(Log(k)) :
           /\ Log(k)[i] = <<"store", Pre(k).passIndex, b>>
           /\ \E j \in (i + 1)..Len(Log(k)) :
                Log(k)[j] = <<"passIndex", Pre(k).passIndex + 1, 0>>
      /\ StoredSymbols(Log(k)) = {b}
      /\ Pre(k).passIndex < 3 =>
           /\ Post(k).passIndex = Pre(k).passIndex + 1
           /\ Post(k).enteredPasscode =
                [Pre(k).enteredPasscode EXCEPT ![Pre(k).passIndex] = b]

\* Back has been accepted as the symbol 3 at index 1.
C5_Witness ==
  \E k \in Steps :
    /\ Pre(k).currentState = LOCKED
    /\ Pressed(k, 3)
    /\ <<"store", 1, 3>> \in Events(Log(k))
    /\ Post(k).passIndex = 2
    /\ Post(k).enteredPasscode[1] = 3

\* C6: in MENU a Down press takes the selection i to (i+1) mod 4 and an Up
\* press to (i-1+4) mod 4; the selection stays in 0..3; four presses of the
\* same button return to the start; Down then Up, and Up then Down, change
\* nothing.
C6_MenuSelectionCyclic ==
  /\ selectedMenuItem \in 0..3
  /\ \A k \in Steps :
       /\ Pre(k).selectedMenuItem \in 0..3
       /\ (Pre(k).currentState = MENU /\ Pressed(k, 1)) =>
            Post(k).selectedMenuItem = (Pre(k).selectedMenuItem + 1) % 4
       /\ (Pre(k).currentState = MENU /\ Pressed(k, 0)) =>
            Post(k).selectedMenuItem = (Pre(k).selectedMenuItem - 1 + 4) % 4
  /\ \A i \in 0..3 :
       /\ MenuNext(MenuNext(MenuNext(MenuNext(i)))) = i
       /\ MenuPrevious(MenuPrevious(MenuPrevious(MenuPrevious(i)))) = i
       /\ MenuPrevious(MenuNext(i)) = i
       /\ MenuNext(MenuPrevious(i)) = i

\* An Up press in MENU has wrapped the selection from 0 to 3.
C6_Witness ==
  \E k \in Steps :
    /\ Pre(k).currentState = MENU
    /\ Pre(k).selectedMenuItem = 0
    /\ Pressed(k, 0)
    /\ Post(k).selectedMenuItem = 3

\* C7: in CONTENT currentPage is in [0, maxPages), maxPages being the page
\* count of the selected item, and a press that changes currentPage changes
\* it by exactly 1.
C7_PageInRange ==
  /\ currentState = CONTENT =>
       /\ maxPages = CatalogPages[selectedMenuItem + 1]
       /\ currentPage \in 0..(maxPages - 1)
  /\ \A k \in Steps :
       /\ Pre(k).currentState = CONTENT =>
            /\ Pre(k).maxPages = CatalogPages[Pre(k).selectedMenuItem + 1]
            /\ Pre(k).currentPage \in 0..(Pre(k).maxPages - 1)
       /\ (Pre(k).currentState = CONTENT /\ Post(k).currentState = CONTENT
             /\ Post(k).currentPage # Pre(k).currentPage) =>
            \/ Post(k).currentPage = Pre(k).currentPage + 1
            \/ Post(k).currentPage = Pre(k).currentPage - 1

\* The last page of the six-page letter has been reached by a Down press.
C7_Witness ==
  \E k \in Steps :
    /\ Pre(k).currentState = CONTENT
    /\ Pre(k).currentPage = 4
    /\ Pressed(k, 1)
    /\ Post(k).currentState = CONTENT
    /\ Post(k).selectedMenuItem = 0
    /\ Post(k).currentPage = 5

\* C8: in CONTENT an Up press at page 0 and a Down press at page maxPages-1
\* leave currentPage, maxPages and lastMemoryPage unchanged, draw nothing and
\* play no page-turn pulse (50 on).
C8_BoundPressIgnored ==
  \A k \in Steps :
    (/\ Pre(k).currentState = CONTENT
     /\ \/ Pressed(k, 0) /\ Pre(k).currentPage = 0
        \/ Pressed(k, 1) /\ Pre(k).currentPage = Pre(k).maxPages - 1) =>
      /\ Post(k).currentPage = Pre(k).currentPage
      /\ Post(k).maxPages = Pre(k).maxPages
      /\ Post(k).lastMemoryPage = Pre(k).lastMemoryPage
      /\ Post(k).currentState = Pre(k).currentState
      /\ \A e \in Events(Log(k)) : e[1] \notin DrawTags
      /\ Occurrences(On(50), HapticTrace(Log(k))) = 0

\* A Down press in the one-page About screen has been handled.
C8_Witness ==
  \E k \in Steps :
    /\ Pre(k).currentState = CONTENT
    /\ Pre(k).selectedMenuItem = 3
    /\ Pressed(k, 1)

\* C9: a Select press in MENU with selection k ends in CONTENT with
\* currentPage = 0, lastMemoryPage = 0, maxPages = 6, 3, 2, 1 for k = 0..3 and
\* all LEDs at (50,50,50); maxPages changes only in a step that enters CONTENT.
C9_EnterContent ==
  \A k \in Steps :
    /\ (Pre(k).currentState = MENU /\ Pressed(k, 2)) =>
         /\ Post(k).currentState = CONTENT
         /\ Post(k).currentPage = 0
         /\ Post(k).lastMemoryPage = 0
         /\ Post(k).maxPages = CatalogPages[Pre(k).selectedMenuItem + 1]
         /\ Post(k).led = DimLeds
    /\ Post(k).maxPages # Pre(k).maxPages =>
         (Pre(k).currentState = MENU /\ Post(k).currentState = CONTENT)

\* The two-page Quote screen has been entered after pages were turned in an
\* earlier visit.
C9_Witness ==
  \E k \in Steps :
    /\ Pre(k).currentState = MENU
    /\ Pre(k).selectedMenuItem = 2
    /\ Pre(k).currentPage > 0
    /\ Pressed(k, 2)
    /\ Post(k).currentState = CONTENT
    /\ Post(k).maxPages = 2
    /\ Post(k).led = DimLeds

\* C10: no step taken in CONTENT changes selectedMenuItem, nor does the Select
\* press that enters CONTENT; a Back press in CONTENT ends in MENU with the
\* selection it was entered with.
C10_SelectionPreserved ==
  \A k \in Steps :
    /\ Pre(k).currentState = CONTENT =>
         Post(k).selectedMenuItem = Pre(k).selectedMenuItem
    /\ (Pre(k).currentState = MENU /\ Post(k).currentState = CONTENT) =>
         Post(k).selectedMenuItem = Pre(k).selectedMenuItem
    /\ (Pre(k).currentState = CONTENT /\ Pressed(k, 3)) =>
         /\ Post(k).currentState = MENU
         /\ Post(k).selectedMenuItem = Pre(k).selectedMenuItem

\* Back has returned to MENU from the third Memories page.
C10_Witness ==
  \E k \in Steps :
    /\ Pre(k).currentState = CONTENT
    /\ Pressed(k, 3)
    /\ Post(k).currentState = MENU
    /\ Post(k).selectedMenuItem = 1
    /\ Post(k).currentPage = 2
    /\ Post(k).maxPages = 3

\* The slide strips a step drew, each <<"slideStrip", width, direction>> with
\* direction 1 = forward, 0 = backward.
SlideStrips(lg) == {e \in Events(lg) : e[1] = "slideStrip"}

\* C11: in the Memories screen (item 1) every step that changes currentPage
\* plays the 16-strip slide, forward exactly when the new page is greater
\* than the page shown before the press and backward otherwise; a Down press
\* that turns the page slides forward, an Up press that turns it backward.
C11_SlideDirection ==
  \A k \in Steps :
    (Pre(k).currentState = CONTENT /\ Pre(k).selectedMenuItem = 1
       /\ Post(k).currentPage # Pre(k).currentPage) =>
      LET forward == IF Post(k).currentPage > Pre(k).currentPage THEN 1 ELSE 0
      IN /\ Cardinality(SlideStrips(Log(k))) = 16
         /\ \A e \in SlideStrips(Log(k)) : e[3] = forward
         /\ Pressed(k, 1) => forward = 1
         /\ Pressed(k, 0) => forward = 0

\* Memories has gone back from page 2 to page 1 with a backward slide, and so
\* after two forward page turns from page 0.
C11_Witness ==
  \E k \in Steps :
    /\ Pre(k).currentState = CONTENT
    /\ Pre(k).selectedMenuItem = 1
    /\ Pre(k).currentPage = 2
    /\ Pressed(k, 0)
    /\ Post(k).currentPage = 1
    /\ <<"slideStrip", 128, 0>> \in SlideStrips(Log(k))

\* C12 as stated: in LOCKED with passIndex > 0 the timeout test resets the
\* attempt (passIndex 0, buffer cleared) when the time since the last stamped
\* press is TIMEOUT_MS or more, exactly TIMEOUT_MS included, and leaves the
\* attempt alone when it is less.
C12_TimeoutInclusive ==
  [][(pc = "timeout" /\ currentState = LOCKED /\ passIndex > 0) =>
       IF sinceLastPress >= TIMEOUT_MS
         THEN passIndex' = 0 /\ enteredPasscode' = Cleared
         ELSE passIndex' = passIndex /\ enteredPasscode' = enteredPasscode]_vars

\* C12 amended: in LOCKED with passIndex > 0 the timeout test of a loop
\* iteration resets the attempt (passIndex 0, buffer cleared) when the time
\* since the last stamped press is greater than TIMEOUT_MS, and leaves the
\* attempt alone when it is TIMEOUT_MS or less.
C12_TimeoutStrict ==
  [][(pc = "timeout" /\ currentState = LOCKED /\ passIndex > 0) =>
       IF sinceLastPress > TIMEOUT_MS
         THEN passIndex' = 0 /\ enteredPasscode' = Cleared
         ELSE passIndex' = passIndex /\ enteredPasscode' = enteredPasscode]_vars

\* The timeout test has reset an attempt of two symbols, the second a 3.
C12_Witness ==
  /\ pc = "handleButtons"
  /\ trace[1].step = "timeout"
  /\ Pre(1).currentState = LOCKED
  /\ Pre(1).passIndex = 2
  /\ Pre(1).enteredPasscode[1] = 3
  /\ <<"resetAttempt", 0, 0>> \in Events(Log(1))
  /\ passIndex = 0
  /\ enteredPasscode = Cleared
  /\ sinceLastPress > TIMEOUT_MS

\* C13 as stated: whenever the device is in MENU or CONTENT, passIndex is 0
\* and the buffer is cleared.
C13_ResetOnUnlock ==
  currentState \in {MENU, CONTENT} =>
    passIndex = 0 /\ enteredPasscode = Cleared

\* C13 amended: a successful unlock does not reset the attempt.  Whenever the
\* device is in MENU or CONTENT, passIndex is 4 and the buffer holds the four
\* matching symbols 0,0,0,0; the attempt is reset only by the timeout test
\* and by a failed match, and the unlocking step resets nothing.
C13_NoResetOnUnlock ==
  /\ currentState \in {MENU, CONTENT} =>
       /\ passIndex = PASS_LENGTH
       /\ enteredPasscode = CORRECT_PASSCODE
       /\ accepted = <<0, 0, 0, 0>>
  /\ \A k \in Steps :
       /\ <<"resetAttempt", 0, 0>> \in Events(Log(k)) =>
            \/ trace[k].step = "timeout"
            \/ <<"checkPasscode", 0, 0>> \in Events(Log(k))
       /\ (Pre(k).currentState = LOCKED /\ Post(k).currentState = MENU) =>
            /\ <<"resetAttempt", 0, 0>> \notin Events(Log(k))
            /\ Post(k).passIndex = PASS_LENGTH

\* A content screen is open after an unlock and the cursor is still at 4.
C13_Witness ==
  /\ currentState = CONTENT
  /\ passIndex = PASS_LENGTH
  /\ enteredPasscode = CORRECT_PASSCODE

\* C14: passIndex is in 0..4 in every state; every write to the buffer is at
\* an index in 0..3 and every write to passIndex a value in 0..4; a
\* confirmed press that finds passIndex = 4 stores nothing and leaves the
\* buffer and passIndex as they were.
C14_CursorInRange ==
  /\ passIndex \in 0..PASS_LENGTH
  /\ \A k \in Steps :
       /\ Pre(k).passIndex \in 0..PASS_LENGTH
       /\ \A e \in Events(Log(k)) :
            /\ e[1] = "store" => e[2] \in 0..(PASS_LENGTH - 1)
            /\ e[1] = "passIndex" => e[2] \in 0..PASS_LENGTH
       /\ \A b \in Buttons :
            (Pre(k).passIndex >= PASS_LENGTH /\ Pressed(k, b)) =>
              /\ StoredSymbols(Log(k)) = {}
              /\ Post(k).passIndex = Pre(k).passIndex
              /\ Post(k).enteredPasscode = Pre(k).enteredPasscode

\* The fourth symbol has been written at index 3, and in the same call a
\* second confirmed press found the attempt full.
C14_Witness ==
  \E j, k \in Steps :
    /\ j < k
    /\ <<"store", 3, 0>> \in Events(Log(j))
    /\ Pre(k).passIndex = PASS_LENGTH
    /\ Pressed(k, 3)
    /\ Post(k).passIndex = PASS_LENGTH

\* C15 as stated: currentPage is in [0, maxPages) in every state.
C15_PageAlwaysInRange == currentPage \in 0..(maxPages - 1)

\* C15 amended: currentPage is in [0, maxPages) in every state in which a
\* content screen has been entered (maxPages > 0), also back in MENU; until
\* then, and so in BOOTING and LOCKED, maxPages and currentPage are both 0
\* and the interval is empty.
C15_PageInRangeOnceEntered ==
  /\ maxPages \in {0, 1, 2, 3, 6}
  /\ maxPages > 0 => currentPage \in 0..(maxPages - 1)
  /\ maxPages = 0 => currentPage = 0 /\ currentState # CONTENT
  /\ currentState \in {BOOTING, LOCKED} => maxPages = 0
  /\ \A k \in Steps :
       /\ Pre(k).maxPages > 0 =>
            Pre(k).currentPage \in 0..(Pre(k).maxPages - 1)
       /\ Pre(k).maxPages = 0 => Pre(k).currentPage = 0

\* Back in MENU from the last page of the letter: the cursor is still inside
\* the page range of the screen that was left.
C15_Witness ==
  /\ currentState = MENU
  /\ maxPages = 6
  /\ currentPage = 5

\* Step k is an Up press at page 0 or a Down press at the last page, in
\* CONTENT.
BoundPress(k) ==
  /\ Pre(k).currentState = CONTENT
  /\ \/ Pressed(k, 0) /\ Pre(k).currentPage = 0
     \/ Pressed(k, 1) /\ Pre(k).currentPage = Pre(k).maxPages - 1

\* C16 as stated: a press at a page bound gives no feedback at all: the motor
\* is not driven, the LEDs are not written and nothing is drawn.
C16_BoundPressSilent ==
  \A k \in Steps :
    BoundPress(k) =>
      /\ \A e \in Events(Log(k)) :
           e[1] \notin DrawTags \cup {"motor", "setRGBLeds"}
      /\ Post(k).led = Pre(k).led

\* C16 amended: a press at a page bound writes no LED and draws nothing, and
\* the motor runs for the 30-unit button-press pulse that every confirmed
\* press starts with, after the 60-unit settle delay, and for nothing else.
C16_BoundPressOnlyPressPulse ==
  \A k \in Steps :
    BoundPress(k) =>
      /\ \A e \in Events(Log(k)) : e[1] \notin DrawTags \cup {"setRGBLeds"}
      /\ Post(k).led = Pre(k).led
      /\ HapticTrace(Log(k)) = Off(DEBOUNCE) \o On(30)
      /\ Post(k).motor = LOW

\* An Up press on the first page of the letter has been handled.
C16_Witness ==
  \E k \in Steps :
    /\ BoundPress(k)
    /\ Pre(k).selectedMenuItem = 0
    /\ Pressed(k, 0)
    /\ Occurrences(On(30), HapticTrace(Log(k))) = 1

\* Tags of the events that write the navigation state or the attempt.
MutationTags ==
  {"store", "passIndex", "resetAttempt", "currentState", "selectedMenuItem",
   "currentPage", "maxPages", "lastMemoryPage"}

\* Tags of the events that write the LEDs.
LedTags == {"setRGBLeds", "rgbRainbow"}

\* Where in lg the events with a tag in tags are.
Positions(lg, tags) == {i \in 1..Len(lg) : lg[i][1] \in tags}

\* Where in lg the motor is switched on.
Pulses(lg) == {i \in 1..Len(lg) : lg[i] = <<"motor", HIGH, 0>>}

First(S) == CHOOSE i \in S : \A j \in S : i <= j

Last(S) == CHOOSE i \in S : \A j \in S : j <= i

\* Step k is a confirmed press the current state gives a meaning to.
SymbolEntry(k) ==
  /\ Pre(k).currentState = LOCKED
  /\ Pre(k).passIndex < PASS_LENGTH
  /\ \E b \in Buttons : Pressed(k, b)

MenuMove(k) ==
  Pre(k).currentState = MENU /\ (Pressed(k, 0) \/ Pressed(k, 1))

MenuSelect(k) == Pre(k).currentState = MENU /\ Pressed(k, 2)

PageTurn(k) ==
  /\ Pre(k).currentState = CONTENT
  /\ \/ Pressed(k, 0) /\ Pre(k).currentPage > 0
     \/ Pressed(k, 1) /\ Pre(k).currentPage < Pre(k).maxPages - 1

ContentBack(k) == Pre(k).currentState = CONTENT /\ Pressed(k, 3)

Accepted(k) ==
  SymbolEntry(k) \/ MenuMove(k) \/ MenuSelect(k) \/ PageTurn(k) \/ ContentBack(k)

\* C17 as stated: every accepted navigation input drives the motor, then
\* writes state, then draws, then writes the LEDs: all four happen, the first
\* pulse comes before the first state write, that before the first draw, and
\* that before the first LED write.
C17_PulseStateDrawLed ==
  \A k \in Steps :
    Accepted(k) =>
      LET H == Pulses(Log(k))
          M == Positions(Log(k), MutationTags)
          D == Positions(Log(k), DrawTags)
          L == Positions(Log(k), LedTags)
      IN /\ H # {} /\ M # {} /\ D # {} /\ L # {}
         /\ First(H) < First(M)
         /\ First(M) < First(D)
         /\ First(D) < First(L)

\* C17 amended: every accepted navigation input starts with the button-press
\* pulse, before any state write, draw or LED write, and writes state and
\* draws.  Symbol entry and Up/Down in MENU write state, then the LEDs, then
\* draw; Select in MENU writes the page variables, draws, writes
\* currentState and then the LEDs; an effective page turn writes state and
\* draws and writes no LED; Back in CONTENT writes the LEDs, draws the menu
\* and then writes currentState.
C17_PulseFirstThenPerInput ==
  \A k \in Steps :
    Accepted(k) =>
      LET H == Pulses(Log(k))
          M == Positions(Log(k), MutationTags)
          D == Positions(Log(k), DrawTags)
          L == Positions(Log(k), LedTags)
      IN /\ H # {} /\ M # {} /\ D # {}
         /\ First(H) < First(M \cup D \cup L)
         /\ SubSeq(HapticTrace(Log(k)), 1, 4) = Off(DEBOUNCE) \o On(30)
         /\ (SymbolEntry(k) \/ MenuMove(k)) =>
              L # {} /\ First(M) < First(L) /\ First(L) < First(D)
         /\ MenuSelect(k) =>
              /\ First(M) < First(D)
              /\ Last(D) < Last(M)
              /\ Log(k)[Last(M)] = <<"currentState", CONTENT, 0>>
              /\ L = {Len(Log(k))}
         /\ PageTurn(k) => L = {} /\ First(M) < First(D)
         /\ ContentBack(k) =>
              /\ L # {} /\ First(L) < First(D)
              /\ Last(D) < First(M)
              /\ M = {Len(Log(k))}

\* A page has been turned forward: state written, page drawn, no LED write.
C17_Witness ==
  \E k \in Steps :
    /\ PageTurn(k)
    /\ Positions(Log(k), LedTags) = {}
    /\ Positions(Log(k), DrawTags) # {}
    /\ Post(k).currentPage = Pre(k).currentPage + 1

\* C18: in one call of handleButtons() the block of button b produces a press
\* event exactly when the line was latched HIGH by the previous call, is
\* read LOW at the top of this call and is read LOW again after the 60-unit
\* settle delay, and then produces one; the call latches the level it read
\* last, so a line that stays LOW produces no further event (latched LOW),
\* and a release (read HIGH) produces none.
C18_EdgeDebounced ==
  [][(pc = "handleButtons" /\ pc' = "timeout") =>
       \A b \in Buttons :
         \A block \in {trace'[b + 1]} :
         \A presses \in {Positions(block.log, {"press"})} :
            /\ block.step = BlockName(b)
            /\ block.last = lastButton[b]
            /\ presses # {} <=>
                 (lastButton[b] = HIGH /\ block.sampled = LOW
                    /\ block.level = LOW)
            /\ Cardinality(presses) <= 1
            /\ \A i \in presses :
                 /\ block.log[i] = <<"press", b, 0>>
                 /\ Occurrences(Off(DEBOUNCE), SubSeq(block.log, 1, i)) = 1
            /\ lastButton'[b] = block.level
            /\ lastButton[b] = LOW => presses = {}
            /\ block.sampled = HIGH => presses = {}]_vars

\* Down was latched LOW by the previous call and is still read LOW: the
\* block has produced no second event.
C18_Witness ==
  /\ pc = "timeout"
  /\ trace[2].step = "button1"
  /\ trace[2].last = LOW
  /\ trace[2].sampled = LOW
  /\ Positions(trace[2].log, {"press"}) = {}
  /\ lastButton[1] = LOW

\* C19: whatever the storage collaborator answers, setup() ends with
\* currentState = LOCKED, passIndex = 0, selectedMenuItem = 0 and
\* currentPage = 0, and with sdCardDetected true exactly when SD.begin()
\* succeeded and the card type is not CARD_NONE (0); no step after setup()
\* writes sdCardDetected.
C19_BootCompletes ==
  [][/\ pc = "setup" =>
          /\ pc' = "handleButtons"
          /\ currentState' = LOCKED
          /\ passIndex' = 0
          /\ selectedMenuItem' = 0
          /\ currentPage' = 0
          /\ \E begin \in {0, 1}, type \in {0, 2} :
               /\ <<"initSDCard", begin, type>> \in Events(trace'[1].log)
               /\ sdCardDetected' <=> (begin = 1 /\ type # 0)
     /\ pc # "setup" => sdCardDetected' = sdCardDetected]_vars

\* Boot has completed although no card is attached: SD.begin() succeeded and
\* the type is CARD_NONE.
C19_Witness ==
  /\ pc = "handleButtons"
  /\ trace[1].step = "setup"
  /\ <<"initSDCard", 1, 0>> \in Events(trace[1].log)
  /\ currentState = LOCKED
  /\ ~sdCardDetected

\* C20: a confirmed Back press in MENU and a confirmed Select press in
\* CONTENT leave currentState, selectedMenuItem, currentPage, maxPages,
\* passIndex and the buffer as they were, write no state and draw nothing.
C20_NoOpCells ==
  \A k \in Steps :
    (\/ Pre(k).currentState = MENU /\ Pressed(k, 3)
     \/ Pre(k).currentState = CONTENT /\ Pressed(k, 2)) =>
      /\ Post(k).currentState = Pre(k).currentState
      /\ Post(k).selectedMenuItem = Pre(k).selectedMenuItem
      /\ Post(k).currentPage = Pre(k).currentPage
      /\ Post(k).maxPages = Pre(k).maxPages
      /\ Post(k).passIndex = Pre(k).passIndex
      /\ Post(k).enteredPasscode = Pre(k).enteredPasscode
      /\ Positions(Log(k), DrawTags \cup MutationTags) = {}

\* Select has been pressed on the third page of the letter.
C20_Witness ==
  \E k \in Steps :
    /\ Pre(k).currentState = CONTENT
    /\ Pre(k).selectedMenuItem = 0
    /\ Pre(k).currentPage = 2
    /\ Pressed(k, 2)
    /\ Post(k).currentState = CONTENT
    /\ Post(k).currentPage = 2

\* The colours the claims assign to the menu items 0..3.
ItemColors ==
  <<Color(150, 50, 200), Color(255, 100, 180), Color(0, 100, 255),
    Color(255, 150, 0)>>

\* All LEDs at one colour.
Leds(color) == [i \in 0..(RGB_LED_COUNT - 1) |-> color]

\* C21 as stated: whenever the device is in MENU the LEDs have the colour of
\* the selected item.
C21_LedOfSelection ==
  currentState = MENU => led = Leds(ItemColors[selectedMenuItem + 1])

\* C21 amended: the step that unlocks ends in MENU with item 0 selected and
\* the LEDs at its colour (150,50,200); an Up/Down move in MENU ends with the
\* LEDs at the colour of the new selection; Back from CONTENT ends with the
\* LEDs at (150,50,200) whatever the selection is.
C21_LedOfSelectionOrMenu ==
  /\ currentState = MENU =>
       led \in {Leds(ItemColors[selectedMenuItem + 1]), Leds(ItemColors[1])}
  /\ \A k \in Steps :
       /\ (Pre(k).currentState = LOCKED /\ Post(k).currentState = MENU) =>
            /\ Post(k).selectedMenuItem = 0
            /\ Post(k).led = Leds(ItemColors[1])
       /\ MenuMove(k) =>
            Post(k).led = Leds(ItemColors[Post(k).selectedMenuItem + 1])
       /\ ContentBack(k) =>
            /\ Post(k).currentState = MENU
            /\ Post(k).led = Leds(ItemColors[1])

\* Back has returned to MENU with the third item selected: the LEDs are at
\* (150,50,200), not at the item's (0,100,255).
C21_Witness ==
  \E k \in Steps :
    /\ ContentBack(k)
    /\ Post(k).currentState = MENU
    /\ Post(k).selectedMenuItem = 2
    /\ Post(k).led = Leds(Color(150, 50, 200))

\* The states in which input is sampled.
Pollable == {LOCKED, MENU, CONTENT}

\* C22: at the start of every button block and at the timeout test
\* currentState is LOCKED, MENU or CONTENT; UNLOCKING is written and
\* overwritten by MENU within one block, and BOOTING is left by setup().
C22_UnlockingTransient ==
  /\ pc # "setup" => currentState \in Pollable
  /\ \A k \in Steps :
       /\ trace[k].step # "setup" => Pre(k).currentState \in Pollable
       /\ Post(k).currentState \in Pollable
       /\ \A i \in 1..Len(Log(k)) :
            Log(k)[i] = <<"currentState", UNLOCKING, 0>> =>
              \E j \in (i + 1)..Len(Log(k)) :
                Log(k)[j] = <<"currentState", MENU, 0>>

\* A block has passed through UNLOCKING and the next block of the same call
\* starts in MENU.
C22_Witness ==
  \E k \in Steps :
    /\ k < Len(trace)
    /\ <<"currentState", UNLOCKING, 0>> \in Events(Log(k))
    /\ Pre(k + 1).currentState = MENU

\* The values currentState takes in a step: the one it starts with, then the
\* ones the step writes, in order.
StateSequence(k) ==
  LET writes == SelectSeq(Log(k), LAMBDA e : e[1] = "currentState")
  IN <<Pre(k).currentState>> \o [i \in 1..Len(writes) |-> writes[i][2]]

\* The changes of currentState the claim allows.
AllowedChanges ==
  {<<BOOTING, LOCKED>>, <<LOCKED, UNLOCKING>>, <<UNLOCKING, MENU>>,
   <<MENU, CONTENT>>, <<CONTENT, MENU>>}

\* C23: every write of currentState is one of BOOTING to LOCKED (in setup()
\* only), LOCKED to UNLOCKING and UNLOCKING to MENU (in a block that checked
\* a matching attempt), MENU to CONTENT (in the Select block) and CONTENT to
\* MENU (in the Back block); a step that starts in MENU or CONTENT ends in
\* MENU or CONTENT, so LOCKED is never entered again.
C23_StateChanges ==
  \A k \in Steps :
    LET states == StateSequence(k)
    IN /\ states[Len(states)] = Post(k).currentState
       /\ \A i \in 1..(Len(states) - 1) :
            /\ <<states[i], states[i + 1]>> \in AllowedChanges
            /\ states[i] = BOOTING <=> trace[k].step = "setup"
            /\ states[i] = LOCKED =>
                 <<"checkPasscode", 1, 0>> \in Events(Log(k))
            /\ states[i] = MENU => Pressed(k, 2)
            /\ states[i] = CONTENT => Pressed(k, 3)
       /\ Pre(k).currentState \in {MENU, CONTENT} =>
            Post(k).currentState \in {MENU, CONTENT}

\* The timeout test has run in MENU with more than TIMEOUT_MS elapsed, and
\* the device is still in MENU.
C23_Witness ==
  /\ pc = "handleButtons"
  /\ trace[1].step = "timeout"
  /\ Pre(1).currentState = MENU
  /\ sinceLastPress > TIMEOUT_MS
  /\ currentState = MENU

\* C24: the timeout test changes nothing and draws nothing in MENU and in
\* CONTENT; in LOCKED it either does nothing or resets passIndex and the
\* buffer and redraws the entry indicator, and leaves currentState,
\* selectedMenuItem, currentPage, maxPages, lastMemoryPage, the motor and the
\* LEDs as they were.
C24_TimeoutFrame ==
  \A k \in Steps :
    trace[k].step = "timeout" =>
      /\ Pre(k).currentState \in {MENU, CONTENT} =>
           Log(k) = <<>> /\ Post(k) = Pre(k)
      /\ Pre(k).currentState = LOCKED =>
           \/ Log(k) = <<>> /\ Post(k) = Pre(k)
           \/ /\ Log(k) = << <<"resetAttempt", 0, 0>>,
                             <<"drawPasscodeCircles", 0, 0>> >>
              /\ Post(k) = [Pre(k) EXCEPT !.passIndex = 0,
                                          !.enteredPasscode = Cleared,
                                          !.accepted = <<>>]

\* The timeout test has reset an attempt of three symbols while the LEDs
\* show the colour of the last symbol, Back.
C24_Witness ==
  /\ pc = "handleButtons"
  /\ trace[1].step = "timeout"
  /\ Pre(1).currentState = LOCKED
  /\ Pre(1).passIndex = 3
  /\ Pre(1).led = Leds(Color(255, 150, 0))
  /\ passIndex = 0
  /\ led = Leds(Color(255, 150, 0))

\* The blocking time of a step from its   lastPressTime = millis()   to its
\* end: the sum of the delays, those of the motor pulses included.
FeedbackTime(k) ==
  DelaySum(SubSeq(Log(k), LastStamp(Log(k)) + 1, Len(Log(k))))

\* C25 as stated: the blocking time of every accepted input is under 1000.
C25_FeedbackUnder1000 ==
  \A k \in Steps : Accepted(k) => FeedbackTime(k) < 1000

\* C25 amended: the blocking time of every accepted input is below
\* TIMEOUT_MS; it is 2651 for the input that unlocks, 1956 for the input that
\* completes a failed attempt, and at most 290 for every other accepted
\* input.
C25_FeedbackBelowTimeout ==
  \A k \in Steps :
    Accepted(k) =>
      LET time == FeedbackTime(k)
      IN /\ time < TIMEOUT_MS
         /\ time <= 2651
         /\ <<"checkPasscode", 1, 0>> \in Events(Log(k)) => time = 2651
         /\ <<"checkPasscode", 0, 0>> \in Events(Log(k)) => time = 1956
         /\ (\A e \in Events(Log(k)) : e[1] # "checkPasscode") =>
              time <= 290

\* The input that unlocks has blocked for 2651 units.
C25_Witness ==
  \E k \in Steps :
    /\ Accepted(k)
    /\ <<"checkPasscode", 1, 0>> \in Events(Log(k))
    /\ FeedbackTime(k) = 2651

\* unlock: 60 on, 40 off, 60 on, 40 off, 60 on
UnlockProfile == On(60) \o Off(40) \o On(60) \o Off(40) \o On(60)

\* C26 as stated: the unlock profile occurs only in a step that goes from
\* LOCKED to MENU.
C26_UnlockProfileOnlyOnUnlock ==
  \A k \in Steps :
    Occurrences(UnlockProfile, HapticTrace(Log(k))) > 0 =>
      (Pre(k).currentState = LOCKED /\ Post(k).currentState = MENU)

\* C26 amended: the unlock profile occurs once in the step that goes from
\* LOCKED to MENU and once in a Back press in CONTENT, the two steps that
\* call drawMenu(), and in no other step.
C26_UnlockProfileOnDrawMenu ==
  \A k \in Steps :
    Occurrences(UnlockProfile, HapticTrace(Log(k))) =
      (IF \/ Pre(k).currentState = LOCKED /\ Post(k).currentState = MENU
          \/ ContentBack(k)
         THEN 1 ELSE 0)

\* Back from a content screen has played the unlock profile.
C26_Witness ==
  \E k \in Steps :
    /\ ContentBack(k)
    /\ Post(k).currentState = MENU
    /\ Occurrences(UnlockProfile, HapticTrace(Log(k))) = 1

\* The drawMenuItem() calls of lg, in order.
ItemDraws(lg) == SelectSeq(lg, LAMBDA e : e[1] = "drawMenuItem")

\* C27: whenever a block or the timeout test ends in MENU, exactly one menu
\* item is painted highlighted and it is item selectedMenuItem; an Up or Down
\* move in MENU repaints two items only, the old selection plain and then the
\* new selection highlighted.
C27_HighlightMatchesSelection ==
  /\ currentState = MENU => highlighted = {selectedMenuItem}
  /\ \A k \in Steps :
       /\ Post(k).currentState = MENU =>
            Post(k).highlighted = {Post(k).selectedMenuItem}
       /\ MenuMove(k) =>
            ItemDraws(Log(k)) =
              << <<"drawMenuItem", Pre(k).selectedMenuItem, 0>>,
                 <<"drawMenuItem", Post(k).selectedMenuItem, 1>> >>

\* Up in MENU has moved the highlight from item 0 to item 3.
C27_Witness ==
  \E k \in Steps :
    /\ MenuMove(k) /\ Pressed(k, 0)
    /\ Pre(k).highlighted = {0}
    /\ Post(k).currentState = MENU
    /\ Post(k).highlighted = {3}

\* Step k is the block of a button whose line was latched HIGH, is read LOW at
\* the top of the call and is read HIGH after the settle delay.
Bounced(k) ==
  /\ trace[k].step = BlockName(k - 1)
  /\ trace[k].last = HIGH
  /\ trace[k].sampled = LOW
  /\ trace[k].level = HIGH

\* C28: a falling edge whose re-sample after the settle delay reads HIGH is
\* discarded: the block does nothing but the 60-unit delay (no symbol stored,
\* no state written, no motor or LED write, lastPressTime not stamped), the
\* globals are as before it, and the call latches HIGH for that line; a line
\* latched HIGH that is read LOW twice is a press.
C28_BounceDiscarded ==
  \A k \in Steps :
    /\ Bounced(k) =>
         /\ Log(k) = << <<"delay", DEBOUNCE, 0>> >>
         /\ Post(k) = Pre(k)
         /\ lastButton[k - 1] = HIGH
    /\ (trace[k].step = BlockName(k - 1) /\ trace[k].last = HIGH
          /\ trace[k].sampled = LOW /\ trace[k].level = LOW) =>
         Pressed(k, k - 1)

\* In LOCKED with two symbols stored, the Select line has bounced: the
\* attempt still holds two symbols after the block.
C28_Witness ==
  \E k \in Steps :
    /\ Bounced(k)
    /\ trace[k].step = "buttonSelect"
    /\ Pre(k).currentState = LOCKED
    /\ Pre(k).passIndex = 2
    /\ Post(k).passIndex = 2

\* The blocks of step k and of step k + 1 have both confirmed a press.
TwoPresses(k) ==
  /\ k + 1 \in Steps
  /\ \E b \in Buttons : Pressed(k, b)
  /\ \E b \in Buttons : Pressed(k + 1, b)

\* C29: the blocks of one call of handleButtons() run in the order Up, Down,
\* Select, Back, and a confirmed press is given the meaning of the state the
\* blocks before it have left: in LOCKED with a free slot it stores its symbol
\* at passIndex, in MENU Up and Down move the selection by one and Select
\* opens CONTENT, in CONTENT Back returns to MENU, and every other press
\* leaves currentState alone.  So Up completing 0,0,0,0 together with Down
\* ends Down's block in MENU with selection 1, and Select together with Back
\* in MENU ends Select's block in CONTENT and Back's block in MENU.
C29_FixedOrder ==
  /\ Len(trace) > 1 =>
       /\ Len(trace) = 4
       /\ \A k \in Steps : trace[k].step = BlockName(k - 1)
  /\ Len(trace) = 1 => trace[1].step \in {"setup", "timeout"}
  /\ \A k \in Steps : \A b \in Buttons :
       Pressed(k, b) =>
         LET st == Pre(k).currentState
         IN /\ (st = LOCKED /\ Pre(k).passIndex < PASS_LENGTH) =>
                 <<"store", Pre(k).passIndex, b>> \in Events(Log(k))
            /\ st # LOCKED => StoredSymbols(Log(k)) = {}
            /\ (st = MENU /\ b = 0) =>
                 Post(k).selectedMenuItem = (Pre(k).selectedMenuItem + 3) % 4
            /\ (st = MENU /\ b = 1) =>
                 Post(k).selectedMenuItem = (Pre(k).selectedMenuItem + 1) % 4
            /\ (st = MENU /\ b = 2) => Post(k).currentState = CONTENT
            /\ (st = CONTENT /\ b = 3) => Post(k).currentState = MENU
            /\ (st = MENU /\ b # 2) => Post(k).currentState = MENU
            /\ (st = CONTENT /\ b # 3) => Post(k).currentState = CONTENT
  /\ (/\ Len(trace) = 4
      /\ Pre(1).currentState = LOCKED /\ Pre(1).accepted = <<0, 0, 0>>
      /\ Pressed(1, 0) /\ Pressed(2, 1)) =>
       /\ Post(1).currentState = MENU
       /\ Post(2).currentState = MENU
       /\ Post(2).selectedMenuItem = 1
  /\ (/\ Len(trace) = 4
      /\ Pre(3).currentState = MENU
      /\ Pressed(3, 2) /\ Pressed(4, 3)) =>
       /\ Post(3).currentState = CONTENT
       /\ Post(4).currentState = MENU

\* One call has handled Up as the fourth 0 and then Down as a menu move: the
\* call that started in LOCKED has ended in MENU with selection 1.
C29_Witness ==
  /\ TwoPresses(1)
  /\ Pressed(1, 0) /\ Pressed(2, 1)
  /\ Pre(1).currentState = LOCKED
  /\ Pre(1).accepted = <<0, 0, 0>>
  /\ currentState = MENU
  /\ selectedMenuItem = 1

\* One call has handled Select and then Back in MENU: CONTENT was visited.
C29_SelectThenBack ==
  /\ TwoPresses(3)
  /\ Pressed(3, 2) /\ Pressed(4, 3)
  /\ Pre(3).currentState = MENU
  /\ Post(3).currentState = CONTENT
  /\ currentState = MENU

\* The press events of lg.
Presses(lg) == SelectSeq(lg, LAMBDA e : e[1] = "press")

\* C30: no press is serviced while a feedback sequence blocks and none is
\* queued: a press event of a button is produced in that button's block only,
\* from a line latched HIGH that the call reads LOW at the top and LOW after
\* the settle delay; a line that went LOW and returned HIGH between its reads
\* in the call blocked by an animation and its reads in the next call gives
\* no event (its block does nothing), and a line that went LOW in between and
\* is still LOW at the next call's reads gives exactly one event.
C30_NotServicedNotQueued ==
  \A k \in Steps :
    trace[k].step = BlockName(k - 1) =>
      /\ \A i \in 1..Len(Presses(Log(k))) :
           /\ Presses(Log(k))[i] = <<"press", k - 1, 0>>
           /\ trace[k].last = HIGH
           /\ trace[k].sampled = LOW
           /\ trace[k].level = LOW
      /\ line[k - 1] = "tapped" => Log(k) = <<>>
      /\ line[k - 1] = "held" =>
           Presses(Log(k)) = << <<"press", k - 1, 0>> >>

\* Down went LOW and HIGH again while the call before was blocked by the
\* unlock animation: the call after it has produced no event for Down and
\* the selection is still 0.
C30_Witness ==
  /\ pc = "timeout"
  /\ line[1] = "tapped"
  /\ trace[2].step = "button1"
  /\ trace[2].log = <<>>
  /\ Pre(1).currentState = MENU
  /\ Pre(1).passIndex = PASS_LENGTH
  /\ selectedMenuItem = 0

\* Down went LOW while the call before was blocked by the unlock animation
\* and is still LOW: the call after it has produced one event for Down.
C30_HeldServedOnce ==
  /\ pc = "timeout"
  /\ line[1] = "held"
  /\ Presses(trace[2].log) = << <<"press", 1, 0>> >>
  /\ Pre(1).currentState = MENU
  /\ selectedMenuItem = 1

\* ------------------------------------------------------------------- C31
\* Largest pulse count the pattern primitive is applied to.
MaxCount == 4

\* The pin states a haptic call can start from, with an empty log.
PinStates == {[motor |-> level, log |-> <<>>] : level \in {LOW, HIGH}}

\* count pulses of onTime with count - 1 gaps of offTime between them.
RECURSIVE PulseTrain(_, _, _)
PulseTrain(count, onTime, offTime) ==
  IF count = 1 THEN On(onTime)
  ELSE On(onTime) \o Off(offTime) \o PulseTrain(count - 1, onTime, offTime)

\* The motor writes of a log, in order.
MotorWrites(lg) == SelectSeq(lg, LAMBDA e : e[1] = "motor")

\* The call left the pin low and its last write drove it low.
EndsLow(m) ==
  /\ m.motor = LOW
  /\ m.log # <<>>
  /\ m.log[Len(m.log)] = <<"motor", LOW, 0>>

\* Every primitive and named profile, from either pin state, ends with the
\* motor driven low; the pattern is count pulses and count - 1 gaps.
HapticsEndLow ==
  \A p \in PinStates :
    /\ \A duration \in {30, VIB_SHORT, VIB_MEDIUM, VIB_LONG} :
         /\ EndsLow(vibrate(p, duration))
         /\ vibrate(p, duration).log = On(duration)
    /\ \A count \in 1..MaxCount : \A onTime \in {60, 80} : \A offTime \in {0, 40} :
         LET r == vibratePattern(p, count, onTime, offTime)
         IN /\ EndsLow(r)
            /\ Cardinality(Pulses(r.log)) = count
            /\ Occurrences(<< <<"motor", LOW, 0>>, <<"delay", offTime, 0>> >>,
                           r.log) = count - 1
            /\ r.log = PulseTrain(count, onTime, offTime)
    /\ EndsLow(successVibration(p))
    /\ EndsLow(errorVibration(p))
    /\ EndsLow(unlockVibration(p))
    /\ EndsLow(pageTurnVibration(p))
    /\ EndsLow(buttonPressVibration(p))
    /\ EndsLow(menuNavigationVibration(p))

\* C31: the motor is low whenever loop() is about to poll the buttons or has
\* just come back from handleButtons(): every
\* haptic primitive and profile ends with a write that drives it low (the
\* pattern being count pulses with count - 1 gaps), so every step that wrote
\* to the motor wrote low last, every switch-on in a step is followed by a
\* switch-off, and every step ends with the motor low.
C31_MotorOffWhenPolled ==
  /\ HapticsEndLow
  /\ pc \in {"handleButtons", "timeout"} => motor = LOW
  /\ \A k \in Steps :
       LET writes == MotorWrites(Log(k))
       IN /\ Post(k).motor = LOW
          /\ writes # <<>> => writes[Len(writes)][2] = LOW
          /\ \A i \in 1..Len(writes) :
               writes[i][2] = HIGH =>
                 (i < Len(writes) /\ writes[i + 1][2] = LOW)

\* handleButtons() has just returned from rejecting a wrong passcode with the
\* error profile (two pulses), and the motor is low.
C31_Witness ==
  /\ pc = "timeout"
  /\ motor = LOW
  /\ \E k \in Steps :
       /\ Occurrences(ErrorProfile, Log(k)) = 1
       /\ Cardinality(Pulses(Log(k))) >= 2
       /\ Post(k).motor = LOW

\* ------------------------------------------------------------------- C32
\* For both directions and each of the 16 strip widths, every read of the
\* image lies inside the SCREEN_W * SCREEN_H pixels of a full-screen image.
StripReadsInRange ==
  \A direction \in {0, 1} : \A i \in 1..16 :
    \A index \in stripReads(direction, 8 * i) :
      index >= 0 /\ index < SCREEN_W * SCREEN_H

\* C32: a step that runs the slide animation pushes exactly 16 strips, the
\* i-th of them 8 * i pixels wide (so strictly growing, and the full 128 at
\* the 16th), all in one direction and each followed by its 8-unit delay;
\* every pixel index read for a strip lies in 0 .. 128 * 160 - 1; and right
\* after the 16th strip the full image is drawn.
C32_SlideGeometry ==
  \A k \in Steps :
    LET lg == Log(k)
        at == Positions(lg, {"slideStrip"})
    IN at # {} =>
         LET first == First(at)
             direction == lg[first][3]
         IN /\ Cardinality(at) = 16
            /\ Len(lg) >= first + 32
            /\ direction \in {0, 1}
            /\ \A i \in 1..16 :
                 /\ lg[first + 2 * (i - 1)] = <<"slideStrip", 8 * i, direction>>
                 /\ lg[first + 2 * (i - 1) + 1] = <<"delay", 8, 0>>
            /\ \A i \in at : \A j \in at : i < j => lg[i][2] < lg[j][2]
            /\ lg[Last(at)][2] = SCREEN_W
            /\ StripReadsInRange
            /\ lg[first + 32] = <<"drawFullScreenImage", 0, 0>>

\* Down on the first Memories page: the forward slide ran its 16 strips up to
\* the full width and the second page was drawn in full.
C32_Witness ==
  \E k \in Steps :
    /\ Pressed(k, 1)
    /\ Pre(k).currentState = CONTENT
    /\ Pre(k).selectedMenuItem = 1
    /\ Pre(k).currentPage = 0
    /\ Post(k).currentPage = 1
    /\ <<"slideStrip", SCREEN_W, 1>> \in Events(Log(k))
    /\ Cardinality(SlideStrips(Log(k))) = 16
    /\ <<"drawFullScreenImage", 0, 0>> \in Events(Log(k))

====
